---- MODULE Spec2Model ----
(***************************************************************************)
(* Model of the scheduled flight-search function                           *)
(* netlify/functions/ams-bkk-biz-daily.mjs ("main") and of the variant     *)
(* mapLimit of src/unnamed/part_002 ("v2"); of the 429 retry of main and   *)
(* of searchFlightOffers (part_001); and of the offer validators and       *)
(* cheapest-offer selectors of main, part_000 and part_002.                *)
(*                                                                         *)
(* Every await on network I/O or on a timer is a suspension point and so   *)
(* an action boundary. Code that runs synchronously or in the microtasks   *)
(* following one event (a response, a timer) is one action.                *)
(***************************************************************************)
EXTENDS Integers, Sequences, FiniteSets, TLC

\* ---------------------------------------------------------------- bounds
\* largest items.length of a free-standing mapLimit call
MaxItems == 4
\* largest limit of a free-standing mapLimit call
MaxLimit == 3
\* upstream responses per run that deviate from a plain 200 with no offers
MaxEvents == 1
\* clock advances per run of the warm process
MaxTicks == 1
\* invocations of the handler per run of the warm process
MaxInvocations == 2
\* answers per invocation that carry a valid offer
MaxPriced == 2

\* ------------------------------------------------------ program constants
\* limit passed to mapLimit by handler
HandlerLimit == 3
\* flexibilityDays / deltas = [-1, 0, 1]
FlexibilityDays == 1
\* cache hit needs now < expiry - 15_000 ms
TokenSkewMs == 15000
\* data.expires_in || 900
DefaultExpiresIn == 900

\* ------------------------------------------------------------ value sets
\* JS null / undefined tokens (both falsy); real tokens are 1, 2, ...
NullToken == 0
UndefinedToken == 0 - 1
\* status: null of postToSheetsWebhook
NullStatus == 0
\* results[i] before the assignment (new Array(n) hole)
Unset == [kind |-> "unset"]
\* cheapestValid: null
NullOffer == [kind |-> "null"]
\* values an abstract fn may return
FnValues == {"a", "b"}
\* raw bodies of non-success responses
ErrorBodies == {"quota exceeded"}
\* non-success statuses other than 429
ErrorStatuses == {500}
\* prices of the cheapest valid offer a successful search may carry
Prices == {2430, 2500}
\* expires_in of a token response: 0 stands for an absent field
ExpiresInChoices == {0, 20}
\* clock steps in ms
TickSteps == {4999, 5000}
\* statuses a flight-offers request may answer besides 429
SearchStatuses == {200, 400, 500, 503}
\* Retry-After of a 429 in seconds: 0 stands for an absent header
RetryAfterChoices == {0, 1, 3, 10}

VARIABLES
  variant,   \* which file's mapLimit runs: "main" or "v2"
  mode,      \* "maplimit": free-standing mapLimit with an abstract fn; "handler";
             \* "retry": one search with its 429 retry; "offers": one validator
             \* or selector applied to a list of offers
  n,         \* items.length
  limit,     \* limit
  idx,       \* shared index (idx / i)
  pc,        \* worker -> position
  cur,       \* worker -> const cur
  token,     \* worker -> const token of searchOffersOnePair
  results,   \* index -> entry
  returned,  \* index -> what fn returned for the item (Unset before)
  calls,     \* index -> number of fn calls made for the item
  mlp,       \* promise of mapLimit: "none", "pending", "resolved", "rejected"
  hpc,       \* handler: "none", "idle", "map", "webhook", "returned", "threw"
  response,  \* what handler returned
  AMADEUS_TOKEN,
  AMADEUS_TOKEN_EXPIRES_AT_MS,
  now,       \* Date.now()
  env,       \* process.env: which variables are set
  searchReqs,\* index -> search requests issued for the pair
  lastRes,   \* index -> last response received for the pair's search
  exchanges, \* token exchanges started in this invocation
  cacheHits, \* getAmadeusToken calls answered from the cache in this invocation
  tokSeq,    \* tokens issued by the OAuth endpoint so far
  events,    \* deviating responses so far
  ticks,     \* clock advances so far
  invocations,
  authError, \* how a token exchange of this invocation failed: "none", "status", "timeout"
  retry,     \* one call of a search with 429 retry: file, position, attempt, ...
  offers,    \* the offers handed to a validator or selector
  applied,   \* the validator or selector applied to offers ("none" before)
  out        \* what it returned

vars == <<variant, mode, n, limit, idx, pc, cur, token, results, returned, calls,
          mlp, hpc, response, AMADEUS_TOKEN, AMADEUS_TOKEN_EXPIRES_AT_MS, now,
          env, searchReqs, lastRes, exchanges, cacheHits, tokSeq, events, ticks,
          invocations, authError, retry, offers, applied, out>>

mlVars == <<n, limit, idx, pc, cur, token, results, returned, calls, mlp>>
cacheVars == <<AMADEUS_TOKEN, AMADEUS_TOKEN_EXPIRES_AT_MS>>
netVars == <<searchReqs, lastRes, exchanges, cacheHits>>
\* the state of the stand-alone retry and offer-selection runs
auxVars == <<retry, offers, applied, out>>
\* the state of mapLimit, handler and the token cache
progVars == <<variant, mlVars, hpc, response, cacheVars, now, env, netVars, tokSeq,
              events, ticks, invocations, authError>>

\* no retry run, no validator or selector run
NoResult == [ok |-> FALSE, status |-> 0, error |-> ""]
NoRetry == [file |-> "none", pc |-> "idle", attempt |-> 0, requests |-> 0,
            waitMs |-> 0, lastStatus |-> 0, result |-> NoResult]
InitAux ==
  /\ retry = NoRetry
  /\ offers = << >>
  /\ applied = "none"
  /\ out = Unset

Min(a, b) == IF a < b THEN a ELSE b

\* one worker too many
NumWorkersExtra(v, lim, len) == lim + 1

\* number of workers mapLimit creates
NumWorkers(v, lim, len) == IF v = "v2" THEN Min(lim, len) ELSE lim

Workers == DOMAIN pc
Items == 0 .. (n - 1)

\* positions in which a worker's fn call is outstanding
FnPositions == {"fn", "token", "search", "sleep", "search2"}
Outstanding == {w \in Workers : pc[w] \in FnPositions}

\* ------------------------------------------------------------- date pairs
\* const deltas = [-1, 0, 1]
Deltas == [j \in 1 .. (2 * FlexibilityDays + 1) |-> j - FlexibilityDays - 1]

\* the nested loops of handler: pairs[i] for the 0-based index i
PairAt(i) == [delta |-> [dep |-> Deltas[(i \div Len(Deltas)) + 1],
                         ret |-> Deltas[(i % Len(Deltas)) + 1]]]

NumPairs == Len(Deltas) * Len(Deltas)

\* ------------------------------------------------------------ token cache
Truthy(t) == t # NullToken /\ t # UndefinedToken

\* the margin compared with <= instead of <
CacheFreshInclusive ==
  Truthy(AMADEUS_TOKEN) /\ now <= AMADEUS_TOKEN_EXPIRES_AT_MS - TokenSkewMs

\* the guard of getAmadeusToken's early return
CacheFresh ==
  Truthy(AMADEUS_TOKEN) /\ now < AMADEUS_TOKEN_EXPIRES_AT_MS - TokenSkewMs

\* envOrThrow for both credentials: TRUE when neither call throws
envOrThrow == env.id /\ env.secret

\* where a worker stands right after it called fn for a new item:
\* an abstract fn is outstanding; searchOffersOnePair awaits getAmadeusToken,
\* which answers from the cache, starts an exchange, or throws
getAmadeusToken ==
  IF CacheFresh THEN "search" ELSE IF envOrThrow THEN "token" ELSE "failed"

EnterPc == IF mode = "maplimit" THEN "fn" ELSE getAmadeusToken

\* ---------------------------------------------------------------- mapLimit
AllDone(p) == \A w \in DOMAIN p : p[w] = "done"
SomeFailed(p) == \E w \in DOMAIN p : p[w] = "failed"

\* Promise.all(workers) after a step that left the workers at p
PromiseAll(old, p) ==
  IF old # "pending" THEN old
  ELSE IF SomeFailed(p) THEN "rejected"
  ELSE IF AllDone(p) THEN "resolved"
  ELSE "pending"

\* the synchronous part of mapLimit: every worker runs up to its first await
mapLimit(v, len, lim) ==
  LET nw == NumWorkers(v, lim, len)
      p == [w \in 1 .. nw |-> IF w - 1 < len THEN EnterPc ELSE "done"]
  IN /\ variant' = v
     /\ n' = len
     /\ limit' = lim
     /\ pc' = p
     /\ cur' = [w \in 1 .. nw |-> IF w - 1 < len THEN w - 1 ELSE 0 - 1]
     /\ idx' = Min(nw, len)
     /\ token' = [w \in 1 .. nw |->
                    IF w - 1 < len /\ p[w] = "search" THEN AMADEUS_TOKEN ELSE NullToken]
     /\ results' = [i \in 0 .. (len - 1) |-> Unset]
     /\ returned' = [i \in 0 .. (len - 1) |-> Unset]
     /\ calls' = [i \in 0 .. (len - 1) |-> IF i < nw THEN 1 ELSE 0]
     /\ mlp' = PromiseAll("pending", p)
     /\ searchReqs' = [i \in 0 .. (len - 1) |->
                         IF i < nw /\ p[i + 1] = "search" THEN 1 ELSE 0]
     /\ lastRes' = [i \in 0 .. (len - 1) |-> [status |-> 0, body |-> ""]]
     /\ exchanges' = Cardinality({w \in 1 .. nw : w - 1 < len /\ p[w] = "token"})
     /\ cacheHits' = Cardinality({w \in 1 .. nw : w - 1 < len /\ p[w] = "search"})

\* the shared index read after the await instead of the captured one
StoreIndexShared(w) == idx - 1

\* the slot `results[cur] = ...` writes: the index the worker took before the await
StoreIndex(w) == cur[w]

\* the worker keeps the index it already had
NextItemRepeated(w) == cur[w]

\* the index `const cur = idx++` hands to the worker
NextItem(w) == idx

\* results[cur] = <e>; then the while test and, if it passes, the next fn call
WorkerStore(w, e) ==
  LET more == idx < n
      p == [pc EXCEPT ![w] = IF more THEN EnterPc ELSE "done"]
  IN /\ results' = [results EXCEPT ![StoreIndex(w)] = e]
     /\ pc' = p
     /\ idx' = IF more THEN idx + 1 ELSE idx
     /\ cur' = IF more THEN [cur EXCEPT ![w] = NextItem(w)] ELSE cur
     /\ calls' = IF more THEN [calls EXCEPT ![NextItem(w)] = @ + 1] ELSE calls
     /\ token' = [token EXCEPT ![w] =
                    IF more /\ p[w] = "search" THEN AMADEUS_TOKEN ELSE NullToken]
     /\ searchReqs' = IF more /\ p[w] = "search"
                      THEN [searchReqs EXCEPT ![NextItem(w)] = @ + 1] ELSE searchReqs
     /\ exchanges' = IF more /\ p[w] = "token" THEN exchanges + 1 ELSE exchanges
     /\ cacheHits' = IF more /\ p[w] = "search" THEN cacheHits + 1 ELSE cacheHits
     /\ mlp' = PromiseAll(mlp, p)
     /\ UNCHANGED <<variant, n, limit>>

\* the awaited fn call rejects: the worker's promise rejects, nothing is stored
WorkerThrow(w) ==
  /\ pc' = [pc EXCEPT ![w] = "failed"]
  /\ mlp' = PromiseAll(mlp, pc')
  /\ UNCHANGED <<variant, n, limit, idx, cur, token, results, calls,
                 searchReqs, exchanges, cacheHits>>

\* ------------------------------------------- free-standing mapLimit calls
MapLimitCall ==
  /\ mode = "maplimit"
  /\ mlp = "none"
  /\ mapLimit(variant, n, limit)
  /\ UNCHANGED <<mode, auxVars, hpc, response, cacheVars, now, env, tokSeq, events, ticks,
                 invocations, authError>>

FnReturn(w, v) ==
  /\ mode = "maplimit"
  /\ pc[w] = "fn"
  /\ returned' = [returned EXCEPT ![cur[w]] = [kind |-> "value", v |-> v]]
  /\ WorkerStore(w, [kind |-> "value", v |-> v])
  /\ UNCHANGED <<mode, auxVars, hpc, response, cacheVars, now, env, lastRes, tokSeq, events,
                 ticks, invocations, authError>>

FnThrow(w) ==
  /\ mode = "maplimit"
  /\ pc[w] = "fn"
  /\ events < MaxEvents
  /\ events' = events + 1
  /\ WorkerThrow(w)
  /\ UNCHANGED returned
  /\ UNCHANGED <<mode, auxVars, hpc, response, cacheVars, now, env, lastRes, tokSeq, ticks,
                 invocations, authError>>

InitMapLimit ==
  /\ InitAux
  /\ mode = "maplimit"
  /\ variant \in {"main", "v2"}
  /\ n \in 0 .. MaxItems
  /\ limit \in 1 .. MaxLimit
  /\ idx = 0
  /\ pc = << >>
  /\ cur = << >>
  /\ token = << >>
  /\ results = << >>
  /\ returned = << >>
  /\ calls = << >>
  /\ mlp = "none"
  /\ hpc = "none"
  /\ response = [statusCode |-> 0]
  /\ AMADEUS_TOKEN = NullToken
  /\ AMADEUS_TOKEN_EXPIRES_AT_MS = 0
  /\ now = 0
  /\ env = [id |-> TRUE, secret |-> TRUE, sheets |-> FALSE]
  /\ searchReqs = << >>
  /\ lastRes = << >>
  /\ exchanges = 0
  /\ cacheHits = 0
  /\ tokSeq = 0
  /\ events = 0
  /\ ticks = 0
  /\ invocations = 0
  /\ authError = "none"

NextMapLimit ==
  \/ MapLimitCall
  \/ \E w \in Workers, v \in FnValues : FnReturn(w, v)
  \/ \E w \in Workers : FnThrow(w)

SpecMapLimit == InitMapLimit /\ [][NextMapLimit]_vars

\* ------------------------------------------------------- handler (main)
NullError == "null"
NoResponse == [statusCode |-> 0]
NoRes == [status |-> 0, body |-> ""]

\* the object the mapLimit callback of handler returns for pairs[i]
Entry(i, ok, status, error, cv) ==
  [kind |-> "entry", pair |-> PairAt(i), ok |-> ok, status |-> status,
   error |-> error, cheapestValid |-> cv]

Offer(p) == [kind |-> "offer", price |-> p]

\* ---- prices and their order
\* price.total as the API sends it: a decimal string (its value, >= 0), a
\* string that is no number, or no field at all
NonNumeric == 0 - 1
Absent == 0 - 2
\* Number(p) of a price that is no number
NaN == 0 - 1
\* Number(price)
Number(p) == IF p >= 0 THEN p ELSE NaN

\* Array.prototype.sort is stable: the first element after sorting the
\* positions I by key is the earliest position of the least key
FirstByKey(I, key) ==
  CHOOSE i \in I : \A j \in I : key[i] < key[j] \/ (key[i] = key[j] /\ i <= j)

\* main: (a, b) => Number(a.price) - Number(b.price) is NaN, which sort reads
\* as 0, whenever one of the prices is no number. The comparator is then
\* consistent only if all numeric prices are equal (a = x = b forces a = b).
ConsistentComparator(os, I) ==
  \/ \A i \in I : Number(os[i].price) # NaN
  \/ \A i, j \in I :
       Number(os[i].price) # NaN /\ Number(os[j].price) # NaN =>
         os[i].price = os[j].price

\* main: the positions valids[0] may have after valids.sort(...): the stable
\* minimum for a consistent comparator, else any (implementation-defined order)
SortedFirst(os, I) ==
  IF \A i \in I : Number(os[i].price) # NaN
  THEN {FirstByKey(I, [i \in I |-> Number(os[i].price)])}
  ELSE IF ConsistentComparator(os, I)
  THEN {FirstByKey(I, [i \in I |-> 0])}
  ELSE I

\* allCheapest.sort(...); bestOffer = allCheapest[0]: every value bestOffer
\* may have, null when no pair has a cheapestValid
BestOffers(res) ==
  LET priced == {i \in DOMAIN res : res[i].cheapestValid # NullOffer}
      all == [i \in priced |-> res[i].cheapestValid]
  IN IF priced = {} THEN {NullOffer}
     ELSE {all[i] : i \in SortedFirst(all, priced)}

\* payload.searches
Searches(res) ==
  [i \in DOMAIN res |-> [pair |-> res[i].pair, ok |-> res[i].ok,
                         status |-> res[i].status, error |-> res[i].error,
                         cheapestValid |-> res[i].cheapestValid]]

\* json(200, payload)
json200(res, best, sw) ==
  [statusCode |-> 200, bestOffer |-> best, searches |-> Searches(res),
   sheetsWrite |-> sw]

\* postToSheetsWebhook without SHEETS_WEBAPP_URL
SheetsNoUrl == [ok |-> FALSE, status |-> NullStatus, error |-> "No SHEETS_WEBAPP_URL set"]

\* what handler does when the step settles `await mapLimit(...)`:
\* a rejection propagates (handler has no try/catch); a resolution builds the
\* payload and calls postToSheetsWebhook, which returns at once without a URL
HandlerAfterMap ==
  IF mode = "handler" /\ hpc \in {"idle", "map", "returned", "threw"}
  THEN CASE mlp' = "rejected" /\ (hpc # "map" \/ mlp = "pending") ->
              /\ hpc' = "threw"
              /\ response' = NoResponse
         [] mlp' = "resolved" /\ (hpc # "map" \/ mlp = "pending") ->
              IF env.sheets
              THEN /\ hpc' = "webhook"
                   /\ response' = NoResponse
              ELSE /\ hpc' = "returned"
                   /\ response' \in {json200(results', b, SheetsNoUrl) :
                                       b \in BestOffers(results')}
         [] mlp' = "pending" ->
              /\ hpc' = "map"
              /\ response' = NoResponse
         [] OTHER -> UNCHANGED <<hpc, response>>
  ELSE UNCHANGED <<hpc, response>>

\* export async function handler(): up to the first suspension
handlerBody ==
  /\ mapLimit("main", NumPairs, HandlerLimit)
  /\ HandlerAfterMap
  /\ invocations' = invocations + 1
  /\ authError' = "none"
  /\ UNCHANGED <<mode, auxVars, cacheVars, now, env, tokSeq, events, ticks>>

\* first invocation of the process
handler ==
  /\ mode = "handler"
  /\ hpc = "idle"
  /\ handlerBody

\* a later invocation of the warm process, after the previous one has drained
handlerWarm ==
  /\ mode = "handler"
  /\ hpc \in {"returned", "threw"}
  /\ Outstanding = {}
  /\ invocations < MaxInvocations
  /\ handlerBody

\* ---- getAmadeusToken: the exchange response arrives
ExpiryOf(e) == now + (IF e = 0 THEN DefaultExpiresIn ELSE e) * 1000

\* the first token cached is kept
CacheWriteFirstWins(t) == IF Truthy(AMADEUS_TOKEN) THEN AMADEUS_TOKEN ELSE t

\* AMADEUS_TOKEN = data.access_token: what the cache holds after the assignment
CacheWrite(t) == t

\* res.ok, data = { access_token, expires_in }
TokenOk(w, e) ==
  /\ mode = "handler"
  /\ pc[w] = "token"
  /\ tokSeq' = tokSeq + 1
  /\ AMADEUS_TOKEN' = CacheWrite(tokSeq + 1)
  /\ AMADEUS_TOKEN_EXPIRES_AT_MS' = ExpiryOf(e)
  /\ token' = [token EXCEPT ![w] = tokSeq + 1]
  /\ pc' = [pc EXCEPT ![w] = "search"]
  /\ searchReqs' = [searchReqs EXCEPT ![cur[w]] = @ + 1]
  /\ UNCHANGED <<variant, mode, auxVars, n, limit, idx, cur, results, returned, calls, mlp,
                 hpc, response, now, env, lastRes, exchanges, cacheHits, events,
                 ticks, invocations, authError>>

\* res.ok, but data has no access_token
TokenNoField(w, e) ==
  /\ mode = "handler"
  /\ pc[w] = "token"
  /\ events < MaxEvents
  /\ events' = events + 1
  /\ AMADEUS_TOKEN' = CacheWrite(UndefinedToken)
  /\ AMADEUS_TOKEN_EXPIRES_AT_MS' = ExpiryOf(e)
  /\ token' = [token EXCEPT ![w] = UndefinedToken]
  /\ pc' = [pc EXCEPT ![w] = "search"]
  /\ searchReqs' = [searchReqs EXCEPT ![cur[w]] = @ + 1]
  /\ UNCHANGED <<variant, mode, auxVars, n, limit, idx, cur, results, returned, calls, mlp,
                 hpc, response, now, env, lastRes, exchanges, cacheHits, tokSeq,
                 ticks, invocations, authError>>

\* a failed exchange empties the cache
CacheCleared == <<NullToken, 0>>

\* the cache after getAmadeusToken threw: the throw precedes both assignments
CacheAfterThrow == <<AMADEUS_TOKEN, AMADEUS_TOKEN_EXPIRES_AT_MS>>

\* !res.ok ("status") or fetchWithTimeout rejects ("timeout"): getAmadeusToken throws
TokenFail(w, why) ==
  /\ mode = "handler"
  /\ pc[w] = "token"
  /\ events < MaxEvents
  /\ events' = events + 1
  /\ authError' = why
  /\ AMADEUS_TOKEN' = CacheAfterThrow[1]
  /\ AMADEUS_TOKEN_EXPIRES_AT_MS' = CacheAfterThrow[2]
  /\ WorkerThrow(w)
  /\ HandlerAfterMap
  /\ UNCHANGED <<mode, auxVars, returned, now, env, lastRes, tokSeq, ticks, invocations>>

\* ---- searchOffersOnePair: the search response arrives
InSearch(w) == mode = "handler" /\ pc[w] \in {"search", "search2"}

\* the callback returns entry e for the worker's pair after response r
SearchReturn(w, e, r) ==
  /\ returned' = [returned EXCEPT ![cur[w]] = e]
  /\ lastRes' = [lastRes EXCEPT ![cur[w]] = r]
  /\ WorkerStore(w, e)
  /\ HandlerAfterMap
  /\ UNCHANGED <<mode, auxVars, cacheVars, now, env, tokSeq, ticks, invocations, authError>>

\* 200 with parseable JSON; cv is pickCheapestValid of its offers (at most
\* MaxPriced pairs of an invocation find a valid offer)
SearchOk(w, cv) ==
  /\ InSearch(w)
  /\ cv # NullOffer =>
       Cardinality({i \in Items : results[i] # Unset /\ results[i].cheapestValid # NullOffer})
         < MaxPriced
  /\ events' = events
  /\ SearchReturn(w, Entry(cur[w], TRUE, 200, NullError, cv), [status |-> 200, body |-> "json"])

\* 200 whose body JSON.parse rejects
SearchInvalidJson(w) ==
  /\ InSearch(w)
  /\ events < MaxEvents
  /\ events' = events + 1
  /\ SearchReturn(w, Entry(cur[w], FALSE, 200, "Invalid JSON from Amadeus", NullOffer),
                  [status |-> 200, body |-> "garbage"])

\* a non-success status thrown instead of returned
SearchHttpErrorThrows(w, st, body) ==
  /\ InSearch(w)
  /\ st = 429 => pc[w] = "search2"
  /\ events < MaxEvents
  /\ events' = events + 1
  /\ lastRes' = [lastRes EXCEPT ![cur[w]] = [status |-> st, body |-> body]]
  /\ WorkerThrow(w)
  /\ HandlerAfterMap
  /\ UNCHANGED <<mode, auxVars, returned, cacheVars, now, env, tokSeq, ticks, invocations,
                 authError>>

\* non-success status: returned as a failed result carrying status and body.
\* A 429 reaches searchOffersOnePair only from the retry of fetchWith429Retry.
SearchHttpError(w, st, body) ==
  /\ InSearch(w)
  /\ st = 429 => pc[w] = "search2"
  /\ events < MaxEvents
  /\ events' = events + 1
  /\ SearchReturn(w, Entry(cur[w], FALSE, st, body, NullOffer),
                  [status |-> st, body |-> body])

\* first response of fetchWith429Retry is a 429: sleep, then one retry
Search429(w) ==
  /\ mode = "handler"
  /\ pc[w] = "search"
  /\ events < MaxEvents
  /\ events' = events + 1
  /\ pc' = [pc EXCEPT ![w] = "sleep"]
  /\ lastRes' = [lastRes EXCEPT ![cur[w]] = [status |-> 429, body |-> ""]]
  /\ UNCHANGED <<variant, mode, auxVars, n, limit, idx, cur, token, results, returned, calls,
                 mlp, hpc, response, cacheVars, now, env, searchReqs, exchanges,
                 cacheHits, tokSeq, ticks, invocations, authError>>

\* await sleep(waitMs) ends: the retry request goes out
SleepDone(w) ==
  /\ mode = "handler"
  /\ pc[w] = "sleep"
  /\ pc' = [pc EXCEPT ![w] = "search2"]
  /\ searchReqs' = [searchReqs EXCEPT ![cur[w]] = @ + 1]
  /\ UNCHANGED <<variant, mode, auxVars, n, limit, idx, cur, token, results, returned, calls,
                 mlp, hpc, response, cacheVars, now, env, lastRes, exchanges,
                 cacheHits, tokSeq, events, ticks, invocations, authError>>

\* fetchWithTimeout aborts (or fetch rejects): searchOffersOnePair throws
SearchTimeout(w) ==
  /\ InSearch(w)
  /\ events < MaxEvents
  /\ events' = events + 1
  /\ lastRes' = [lastRes EXCEPT ![cur[w]] = [status |-> 0, body |-> "abort"]]
  /\ WorkerThrow(w)
  /\ HandlerAfterMap
  /\ UNCHANGED <<mode, auxVars, returned, cacheVars, now, env, tokSeq, ticks, invocations,
                 authError>>

\* ---- postToSheetsWebhook: the webhook response arrives
WebhookResponse(st, body) ==
  /\ mode = "handler"
  /\ hpc = "webhook"
  /\ hpc' = "returned"
  /\ response' \in
       {json200(results, b,
                IF st = 200 THEN [ok |-> TRUE, status |-> st, error |-> NullError]
                ELSE [ok |-> FALSE, status |-> st, error |-> body]) :
          b \in BestOffers(results)}
  /\ UNCHANGED <<variant, mode, auxVars, mlVars, cacheVars, now, env, netVars, tokSeq, events,
                 ticks, invocations, authError>>

\* fetchWithTimeout aborts (or fetch rejects) inside postToSheetsWebhook
WebhookTimeout ==
  /\ mode = "handler"
  /\ hpc = "webhook"
  /\ hpc' = "threw"
  /\ response' = NoResponse
  /\ UNCHANGED <<variant, mode, auxVars, mlVars, cacheVars, now, env, netVars, tokSeq, events,
                 ticks, invocations, authError>>

\* ---- the environment of the warm process
Tick(d) ==
  /\ mode = "handler"
  /\ ticks < MaxTicks
  /\ ticks' = ticks + 1
  /\ now' = now + d
  /\ UNCHANGED <<variant, mode, auxVars, mlVars, hpc, response, cacheVars, env, netVars, tokSeq,
                 events, invocations, authError>>

\* process.env changes between two invocations
EnvChange(id, secret) ==
  /\ mode = "handler"
  /\ hpc \in {"returned", "threw"}
  /\ Outstanding = {}
  /\ invocations < MaxInvocations
  /\ env' = [env EXCEPT !.id = id, !.secret = secret]
  /\ env' # env
  /\ UNCHANGED <<variant, mode, auxVars, mlVars, hpc, response, cacheVars, now, netVars, tokSeq,
                 events, ticks, invocations, authError>>

InitHandler ==
  /\ InitAux
  /\ mode = "handler"
  /\ variant = "main"
  /\ n = 0
  /\ limit = HandlerLimit
  /\ idx = 0
  /\ pc = << >>
  /\ cur = << >>
  /\ token = << >>
  /\ results = << >>
  /\ returned = << >>
  /\ calls = << >>
  /\ mlp = "none"
  /\ hpc = "idle"
  /\ response = NoResponse
  /\ AMADEUS_TOKEN = NullToken
  /\ AMADEUS_TOKEN_EXPIRES_AT_MS = 0
  /\ now = 0
  /\ searchReqs = << >>
  /\ lastRes = << >>
  /\ exchanges = 0
  /\ cacheHits = 0
  /\ tokSeq = 0
  /\ events = 0
  /\ ticks = 0
  /\ invocations = 0
  /\ authError = "none"

\* what every handler specification has: the invocation and plain answers
NextPlain ==
  \/ handler
  \/ \E w \in Workers : SearchOk(w, NullOffer)

\* one invocation of a cold process whose searches may deviate
Init ==
  /\ InitHandler
  /\ env = [id |-> TRUE, secret |-> TRUE, sheets |-> FALSE]

Next ==
  \/ NextPlain
  \/ \E w \in Workers : TokenOk(w, 0)
  \/ \E w \in Workers : SearchInvalidJson(w)
  \/ \E w \in Workers, st \in ErrorStatuses \cup {429}, b \in ErrorBodies :
       SearchHttpError(w, st, b)
  \/ \E w \in Workers : Search429(w)
  \/ \E w \in Workers : SleepDone(w)
  \/ \E w \in Workers : SearchTimeout(w)

Spec == Init /\ [][Next]_vars

\* one invocation of a cold process whose token exchanges may deviate
InitAuth ==
  /\ InitHandler
  /\ env \in [id : BOOLEAN, secret : BOOLEAN, sheets : {FALSE}]

NextAuth ==
  \/ NextPlain
  \/ \E w \in Workers, e \in ExpiresInChoices : TokenOk(w, e)
  \/ \E w \in Workers, e \in ExpiresInChoices : TokenNoField(w, e)
  \/ \E w \in Workers, why \in {"status", "timeout"} : TokenFail(w, why)

SpecAuth == InitAuth /\ [][NextAuth]_vars

\* one invocation of a cold process and the webhook's answers
InitSheets ==
  /\ InitHandler
  /\ env \in [id : {TRUE}, secret : {TRUE}, sheets : BOOLEAN]

NextSheets ==
  \/ NextPlain
  \/ \E w \in Workers : TokenOk(w, 0)
  \/ \E st \in ErrorStatuses \cup {200}, b \in ErrorBodies : WebhookResponse(st, b)
  \/ WebhookTimeout

SpecSheets == InitSheets /\ [][NextSheets]_vars

\* a warm process: several invocations, a moving clock, a changing environment
InitWarm ==
  /\ InitHandler
  /\ env = [id |-> TRUE, secret |-> TRUE, sheets |-> FALSE]

NextWarm ==
  \/ NextPlain
  \/ handlerWarm
  \/ \E w \in Workers, e \in ExpiresInChoices : TokenOk(w, e)
  \/ \E d \in TickSteps : Tick(d)
  \/ \E id \in BOOLEAN, secret \in BOOLEAN : EnvChange(id, secret)

SpecWarm == InitWarm /\ [][NextWarm]_vars

\* one invocation of a cold process whose searches may find valid offers
InitBest ==
  /\ InitHandler
  /\ env = [id |-> TRUE, secret |-> TRUE, sheets |-> FALSE]

NextBest ==
  \/ NextPlain
  \/ \E w \in Workers : TokenOk(w, 0)
  \/ \E w \in Workers, p \in Prices \cup {NonNumeric} : SearchOk(w, Offer(p))

SpecBest == InitBest /\ [][NextBest]_vars

\* ------------------------------------------- one search with its 429 retry
\* `attempt <= 4` of searchFlightOffers (part_001)
RetryLimit429 == 4
\* `let waitMs = 500` of searchFlightOffers (part_001)
InitialWaitMs == 500
\* `Math.min(4000, ...)` and `: 1200` of fetchWith429Retry (main)
RetryAfterCapMs == 4000
DefaultWaitMs == 1200

\* every 429 is retried
ShouldRetryAlways(file, st, attempt) == st = 429

\* whether the response leads to a sleep and another request:
\* fetchWith429Retry retries its first response only, searchFlightOffers
\* retries while attempt <= 4
ShouldRetry(file, st, attempt) ==
  st = 429 /\ attempt <= (IF file = "main" THEN 1 ELSE RetryLimit429)

\* const waitMs = ra ? Math.min(4000, Number(ra) * 1000) : 1200
WaitMsMain(ra) == IF ra = 0 THEN DefaultWaitMs ELSE Min(RetryAfterCapMs, ra * 1000)

\* the caller invokes searchOffersOnePair (token at hand) / searchFlightOffers:
\* the first request goes out
RetryCall ==
  /\ mode = "retry"
  /\ retry.pc = "idle"
  /\ retry' = [retry EXCEPT !.pc = "fetch", !.attempt = 1, !.requests = 1,
                            !.waitMs = IF retry.file = "main" THEN 0 ELSE InitialWaitMs]
  /\ UNCHANGED <<mode, progVars, offers, applied, out>>

\* a response with status st, Retry-After ra and raw body arrives
RetryAnswer(st, ra, body) ==
  /\ mode = "retry"
  /\ retry.pc = "fetch"
  /\ IF ShouldRetry(retry.file, st, retry.attempt)
     THEN /\ body = ""
          /\ retry' = [retry EXCEPT !.pc = "sleep", !.lastStatus = st,
                         !.waitMs = IF retry.file = "main" THEN WaitMsMain(ra) ELSE @]
     ELSE /\ ra = 0
          /\ st = 200 => body = ""
          /\ retry' = [retry EXCEPT !.pc = "returned", !.lastStatus = st,
                         !.result = IF st = 200
                                    THEN [ok |-> TRUE, status |-> 200, error |-> NullError]
                                    ELSE [ok |-> FALSE, status |-> st, error |-> body]]
  /\ UNCHANGED <<mode, progVars, offers, applied, out>>

\* a 200 whose body is not JSON
RetryInvalidJson ==
  /\ mode = "retry"
  /\ retry.pc = "fetch"
  /\ retry' = [retry EXCEPT !.pc = "returned", !.lastStatus = 200,
                 !.result = IF retry.file = "main"
                            THEN [ok |-> FALSE, status |-> 200,
                                  error |-> "Invalid JSON from Amadeus"]
                            ELSE [ok |-> FALSE, status |-> 500,
                                  error |-> "Non-JSON response"]]
  /\ UNCHANGED <<mode, progVars, offers, applied, out>>

\* await sleep(waitMs) ends: the next request goes out
RetrySleepDone ==
  /\ mode = "retry"
  /\ retry.pc = "sleep"
  /\ retry' = [retry EXCEPT !.pc = "fetch", !.attempt = @ + 1, !.requests = @ + 1,
                 !.waitMs = IF retry.file = "main" THEN @ ELSE @ * 2]
  /\ UNCHANGED <<mode, progVars, offers, applied, out>>

\* fetchWithTimeout aborts (or fetch rejects): the call throws
RetryTimeout ==
  /\ mode = "retry"
  /\ retry.pc = "fetch"
  /\ retry' = [retry EXCEPT !.pc = "threw"]
  /\ UNCHANGED <<mode, progVars, offers, applied, out>>

\* everything of mapLimit, handler and the cache at rest
InitIdle ==
  /\ variant = "main"
  /\ n = 0
  /\ limit = HandlerLimit
  /\ idx = 0
  /\ pc = << >>
  /\ cur = << >>
  /\ token = << >>
  /\ results = << >>
  /\ returned = << >>
  /\ calls = << >>
  /\ mlp = "none"
  /\ hpc = "none"
  /\ response = NoResponse
  /\ AMADEUS_TOKEN = NullToken
  /\ AMADEUS_TOKEN_EXPIRES_AT_MS = 0
  /\ now = 0
  /\ env = [id |-> TRUE, secret |-> TRUE, sheets |-> FALSE]
  /\ searchReqs = << >>
  /\ lastRes = << >>
  /\ exchanges = 0
  /\ cacheHits = 0
  /\ tokSeq = 0
  /\ events = 0
  /\ ticks = 0
  /\ invocations = 0
  /\ authError = "none"

InitRetry ==
  /\ mode = "retry"
  /\ InitIdle
  /\ retry \in {[NoRetry EXCEPT !.file = f] : f \in {"main", "part_001"}}
  /\ offers = << >>
  /\ applied = "none"
  /\ out = Unset

NextRetry ==
  \/ RetryCall
  \/ \E st \in SearchStatuses \cup {429}, ra \in RetryAfterChoices,
        body \in ErrorBodies \cup {""} : RetryAnswer(st, ra, body)
  \/ RetryInvalidJson
  \/ RetrySleepDone
  \/ RetryTimeout

SpecRetry == InitRetry /\ [][NextRetry]_vars

\* --------------------------------------------- offers: validating, picking
\* constraints.maxStops and constraints.maxMinutesPerDirection of handler (main)
maxStops == 1
maxMinutesPerDirection == 20 * 60
\* part_000
MAX_TOTAL_MINUTES == 20 * 60
MAX_STOPS_PER_DIRECTION == 1
\* part_002
MAX_MINUTES == 20 * 60
MAX_STOPS == 1

\* Number.POSITIVE_INFINITY
Infinity == 1000000
\* parseDurationToMinutes: null
NullMinutes == 0 - 1

\* itinerary.duration: "PT<h>H<m>M" with either group possibly missing (-1),
\* or a string of another shape
PT(h, m) == [kind |-> "PT", h |-> h, m |-> m]
OtherText == [kind |-> "text", h |-> 0 - 1, m |-> 0 - 1]

Max(a, b) == IF a > b THEN a ELSE b

\* /^PT(?:(\d+)H)?(?:(\d+)M)?$/ matched: hours * 60 + mins, a missing group is 0
MatchedMinutes(d) == Max(d.h, 0) * 60 + Max(d.m, 0)

\* main: null when the pattern does not match
parseDurationToMinutes(iso) ==
  IF iso.kind = "PT" THEN MatchedMinutes(iso) ELSE NullMinutes

\* part_000: null when the pattern does not match
parseISODurationToMinutes_000(iso) ==
  IF iso.kind = "PT" THEN MatchedMinutes(iso) ELSE NullMinutes

\* part_002: +Infinity when the pattern does not match
parseISODurationToMinutes_002(iso) ==
  IF iso.kind = "PT" THEN MatchedMinutes(iso) ELSE Infinity

\* an itinerary: its duration string and the number of its segments
Itinerary(d, segs) == [duration |-> d, segments |-> segs]

\* an offer: price.total, the itineraries, and whether every priced segment
\* has cabin BUSINESS
RawOffer(p, its, biz) == [price |-> p, itineraries |-> its, business |-> biz]

\* main: what summarizeOffer keeps of an offer for the validator
summarizeOffer(offer) ==
  [price |-> offer.price,
   itineraries |-> [k \in DOMAIN offer.itineraries |->
      [durationMinutes |-> parseDurationToMinutes(offer.itineraries[k].duration),
       stops |-> Max(0, offer.itineraries[k].segments - 1)]]]

\* main: isValidOffer(summary, constraints)
isValidOffer(summary) ==
  /\ summary.price # Absent
  /\ Len(summary.itineraries) = 2
  /\ \A k \in DOMAIN summary.itineraries :
       /\ summary.itineraries[k].durationMinutes # NullMinutes
       /\ ~(summary.itineraries[k].durationMinutes > maxMinutesPerDirection)
       /\ ~(summary.itineraries[k].stops > maxStops)

\* part_002: stopsForItinerary
stopsForItinerary(itinerary) == Max(0, itinerary.segments - 1)

\* part_002: isOfferValid(offer)
isOfferValid(offer) ==
  /\ ~(Len(offer.itineraries) < 2)
  /\ \A k \in DOMAIN offer.itineraries :
       /\ ~(parseISODurationToMinutes_002(offer.itineraries[k].duration) > MAX_MINUTES)
       /\ ~(stopsForItinerary(offer.itineraries[k]) > MAX_STOPS)

\* part_000: totalMinutes after the loop over both itineraries
totalMinutes(offer) ==
  parseISODurationToMinutes_000(offer.itineraries[1].duration)
    + parseISODurationToMinutes_000(offer.itineraries[2].duration)

\* each direction compared with the limit, the limit itself allowed
offerMeetsStopsAndDurationPerDirection(offer) ==
  /\ Len(offer.itineraries) = 2
  /\ \A k \in DOMAIN offer.itineraries :
       /\ offer.itineraries[k].segments # 0
       /\ ~(offer.itineraries[k].segments - 1 > MAX_STOPS_PER_DIRECTION)
       /\ parseISODurationToMinutes_000(offer.itineraries[k].duration) # NullMinutes
       /\ parseISODurationToMinutes_000(offer.itineraries[k].duration)
            <= MAX_TOTAL_MINUTES

\* part_000: offerMeetsStopsAndDuration(offer)
offerMeetsStopsAndDuration(offer) ==
  /\ Len(offer.itineraries) = 2
  /\ \A k \in DOMAIN offer.itineraries :
       /\ offer.itineraries[k].segments # 0
       /\ ~(offer.itineraries[k].segments - 1 > MAX_STOPS_PER_DIRECTION)
       /\ parseISODurationToMinutes_000(offer.itineraries[k].duration) # NullMinutes
  /\ totalMinutes(offer) < MAX_TOTAL_MINUTES

\* part_000: offerIsAllBusiness(offer)
offerIsAllBusiness(offer) == offer.business

\* what a validator returns
Bool(b) == [kind |-> "bool", v |-> b]

\* the offer a selector returns: its position in the input and its price
Picked(os, i) == [kind |-> "offer", at |-> i, price |-> os[i].price]

\* main: valids, as positions of the input
valids(os) == {i \in DOMAIN os : isValidOffer(summarizeOffer(os[i]))}

\* main: pickCheapestValid(offers, constraints), every value it may return
pickCheapestValid(os) ==
  IF valids(os) = {} THEN {NullOffer}
  ELSE {Picked(os, i) : i \in SortedFirst(os, valids(os))}

\* part_000: offerPriceNumber(offer), null as NullMinutes' twin
NullPrice == 0 - 1
offerPriceNumber(offer) == IF Number(offer.price) # NaN THEN offer.price ELSE NullPrice

\* part_000: the for loop of pickCheapestValid from position k on
RECURSIVE PickLoop_000(_, _, _)
PickLoop_000(os, k, best) ==
  IF k > Len(os) THEN best
  ELSE IF ~offerIsAllBusiness(os[k]) THEN PickLoop_000(os, k + 1, best)
  ELSE IF ~offerMeetsStopsAndDuration(os[k]) THEN PickLoop_000(os, k + 1, best)
  ELSE IF offerPriceNumber(os[k]) = NullPrice THEN PickLoop_000(os, k + 1, best)
  ELSE IF best = NullOffer \/ offerPriceNumber(os[k]) < best.price
  THEN PickLoop_000(os, k + 1, Picked(os, k))
  ELSE PickLoop_000(os, k + 1, best)

\* part_000: pickCheapestValid(offers)
pickCheapestValid_000(os) == PickLoop_000(os, 1, NullOffer)

\* part_002: offerTotalPriceNumber(offer)
offerTotalPriceNumber(offer) ==
  IF Number(offer.price) # NaN THEN offer.price ELSE Infinity

\* part_002: validOffers, as positions of the input
validOffers(os) == {i \in DOMAIN os : isOfferValid(os[i])}

\* part_002: cheapest = validOffers[0] || null after the sort by price
\* (Infinity - Infinity is NaN, read as 0: offers without a number tie)
cheapest(os) ==
  IF validOffers(os) = {} THEN NullOffer
  ELSE Picked(os, FirstByKey(validOffers(os),
                             [i \in validOffers(os) |-> offerTotalPriceNumber(os[i])]))

\* ---- the inputs of the stand-alone runs
\* most itineraries of the one offer handed to a validator
MaxItineraries == 3
\* most offers handed to a selector
MaxOffers == 3

DurationChoices == {PT(5, 0 - 1), PT(10, 30), PT(20, 0 - 1), PT(20, 1), OtherText}
ItineraryChoices ==
  {Itinerary(d, segs) : d \in DurationChoices, segs \in {2, 3}}
    \cup {Itinerary(PT(5, 0 - 1), 0)}
ValidatorInputs ==
  {<<RawOffer(300, its, TRUE)>> :
     its \in UNION {[1 .. k -> ItineraryChoices] : k \in 0 .. MaxItineraries}}

TwoGood == <<Itinerary(PT(10, 30), 2), Itinerary(PT(5, 0 - 1), 1)>>
OneGood == <<Itinerary(PT(10, 30), 2)>>
SelectorPrices == {300, 500, NonNumeric, Absent}
SelectorOffers ==
  {RawOffer(p, its, TRUE) : p \in SelectorPrices, its \in {TwoGood, OneGood}}
    \cup {RawOffer(300, TwoGood, FALSE)}
SelectorInputs == UNION {[1 .. k -> SelectorOffers] : k \in 0 .. MaxOffers}

\* ---- one application of a validator (to offers[1]) or of a selector
ApplyDone(f, r) ==
  /\ mode = "offers"
  /\ applied = "none"
  /\ applied' = f
  /\ out' = r
  /\ UNCHANGED <<mode, progVars, retry, offers>>

Apply_isValidOffer ==
  /\ Len(offers) = 1
  /\ ApplyDone("isValidOffer", Bool(isValidOffer(summarizeOffer(offers[1]))))

Apply_isOfferValid ==
  /\ Len(offers) = 1
  /\ ApplyDone("isOfferValid", Bool(isOfferValid(offers[1])))

Apply_offerMeetsStopsAndDuration ==
  /\ Len(offers) = 1
  /\ ApplyDone("offerMeetsStopsAndDuration", Bool(offerMeetsStopsAndDuration(offers[1])))

Apply_pickCheapestValid ==
  \E r \in pickCheapestValid(offers) : ApplyDone("pickCheapestValid", r)

Apply_pickCheapestValid_000 ==
  ApplyDone("pickCheapestValid_000", pickCheapestValid_000(offers))

Apply_cheapest ==
  ApplyDone("cheapest", cheapest(offers))

InitOffers ==
  /\ mode = "offers"
  /\ InitIdle
  /\ retry = NoRetry
  /\ offers \in ValidatorInputs \cup SelectorInputs
  /\ applied = "none"
  /\ out = Unset

NextOffers ==
  \/ Apply_isValidOffer
  \/ Apply_isOfferValid
  \/ Apply_offerMeetsStopsAndDuration
  \/ Apply_pickCheapestValid
  \/ Apply_pickCheapestValid_000
  \/ Apply_cheapest

SpecOffers == InitOffers /\ [][NextOffers]_vars

\* ================================================================ claims

\* C1: mapLimit never has more than `limit` calls of fn outstanding at the
\* same time, for every limit, every number of items and every completion order.
C1_AtMostLimitOutstanding ==
  Cardinality(Outstanding) <= limit

\* exactly `limit` calls outstanding again after one call has completed
C1_Witness ==
  /\ mode = "maplimit"
  /\ limit = 2
  /\ n > limit
  /\ Cardinality(Outstanding) = limit
  /\ \E i \in Items : results[i] # Unset

\* C2: every stored result is the value fn returned for the item of the same
\* index, and when mapLimit resolves every index holds that value.
C2_ResultsAligned ==
  /\ \A i \in DOMAIN results : results[i] # Unset => results[i] = returned[i]
  /\ mlp = "resolved" =>
       /\ DOMAIN results = Items
       /\ \A i \in Items : returned[i] # Unset /\ results[i] = returned[i]

\* resolved after item 1 completed before item 0 (worker 2 went on to item 2),
\* with different values returned
C2_Witness ==
  /\ mode = "maplimit"
  /\ mlp = "resolved"
  /\ n = 3
  /\ limit = 2
  /\ cur[2] = 2
  /\ results[0].v = "a"
  /\ results[2].v = "b"

\* C3: a timeout of one pair's search is local to that pair: handler does not
\* fail, and its 200 response carries a failed entry for the pair.
C3_TimeoutIsLocal ==
  \A i \in Items :
    lastRes[i].body = "abort" =>
      /\ hpc # "threw"
      /\ hpc = "returned" =>
           /\ response.statusCode = 200
           /\ response.searches[i].ok = FALSE

\* C4: after a token exchange failed with a non-success status, handler has
\* produced a response with an error status other than 200.
C4_AuthFailureGivesErrorResponse ==
  authError = "status" =>
    /\ hpc = "returned"
    /\ response.statusCode # 200
    /\ response.statusCode # NoResponse.statusCode

\* C5: a non-success status other than 429 ends the pair's search with a
\* failed entry carrying that status and body unchanged; no further request is
\* made for the pair, it never makes handler fail, the other pairs are still
\* searched, and the response handler returns is a 200 with that entry.
C5_HttpErrorAbsorbed ==
  /\ \A i \in Items :
       lastRes[i].status \in ErrorStatuses =>
         /\ results[i] = Entry(i, FALSE, lastRes[i].status, lastRes[i].body, NullOffer)
         /\ \A w \in Workers : cur[w] = i => pc[w] \notin FnPositions
         /\ hpc = "returned" =>
              /\ response.statusCode = 200
              /\ response.searches[i] =
                   [pair |-> PairAt(i), ok |-> FALSE, status |-> lastRes[i].status,
                    error |-> lastRes[i].body, cheapestValid |-> NullOffer]
              /\ \A j \in Items : searchReqs[j] >= 1
  /\ hpc = "threw" => \E i \in Items : lastRes[i].body = "abort"

\* handler returned 200 with the failed entry of a pair answered 500
C5_Witness ==
  /\ hpc = "returned"
  /\ response.statusCode = 200
  /\ \E i \in Items :
       /\ lastRes[i].status = 500
       /\ response.searches[i].status = 500
       /\ response.searches[i].error \in ErrorBodies
       /\ searchReqs[i] = 1

\* C6: once the searches are done, handler returns 200 whatever the webhook
\* POST does, and a failed POST is recorded in sheetsWrite.
C6_WebhookNeverFatal ==
  mlp = "resolved" =>
    /\ hpc # "threw"
    /\ hpc = "returned" =>
         /\ response.statusCode = 200
         /\ DOMAIN response.searches = Items

\* C7: the token provider never hands an absent token to its caller and never
\* stores one in the cache.
C7_NoAbsentToken ==
  /\ AMADEUS_TOKEN # UndefinedToken
  /\ \A w \in Workers : pc[w] \in {"search", "sleep", "search2"} => Truthy(token[w])

\* the workers that call getAmadeusToken in this step
Entered(w) ==
  IF invocations' # invocations THEN cur'[w] >= 0
  ELSE w \in DOMAIN cur /\ cur'[w] # cur[w]

\* the cache test of the claim, on the state in which the call is made
C8_Cached == AMADEUS_TOKEN > 0 /\ now < AMADEUS_TOKEN_EXPIRES_AT_MS - 15000

\* exchanges started in this step
ExchangesStarted ==
  IF invocations' # invocations THEN exchanges' ELSE exchanges' - exchanges

\* C8 as stated: a call returns the cached token without an exchange iff a
\* token is cached and now < expiry - 15000; every other call starts an exchange.
C8_ExchangeUnlessCached ==
  [][\A w \in DOMAIN pc' :
       Entered(w) =>
         /\ (pc'[w] = "search" /\ token'[w] = AMADEUS_TOKEN) <=> C8_Cached
         /\ ~C8_Cached => pc'[w] = "token"]_vars

\* C8 as amended: ... every other call starts an exchange when both
\* credentials are set, and throws without one when a credential is absent.
C8_ExchangeUnlessCachedOrUnconfigured ==
  [][/\ \A w \in DOMAIN pc' :
          Entered(w) =>
            /\ (pc'[w] = "search" /\ token'[w] = AMADEUS_TOKEN) <=> C8_Cached
            /\ ~C8_Cached /\ env.id /\ env.secret => pc'[w] = "token"
            /\ ~C8_Cached /\ ~(env.id /\ env.secret) => pc'[w] = "failed"
     /\ ExchangesStarted =
          Cardinality({w \in DOMAIN pc' :
                         Entered(w) /\ ~C8_Cached /\ env.id /\ env.secret})
     /\ AMADEUS_TOKEN' # AMADEUS_TOKEN => \E w \in Workers : pc[w] = "token"]_vars

\* a warm invocation served from the cache one millisecond before the margin
C8_Witness ==
  /\ invocations = 2
  /\ cacheHits >= HandlerLimit
  /\ exchanges = 0
  /\ now = AMADEUS_TOKEN_EXPIRES_AT_MS - 15000 - 1

\* C9: when handler has settled, none of its fn calls is outstanding.
C9_NothingOutlivesHandler ==
  hpc \in {"returned", "threw"} => Outstanding = {}

\* C10: an invocation that starts with a credential absent aborts with an
\* error and issues no network request.
C10_NoNetworkWithoutCredentials ==
  [][(invocations' # invocations /\ ~(env.id /\ env.secret)) =>
       /\ hpc' = "threw"
       /\ exchanges' = 0
       /\ \A i \in DOMAIN searchReqs' : searchReqs'[i] = 0]_vars

Completed(w) == w \in DOMAIN pc /\ pc[w] = "token" /\ pc'[w] = "search"

\* C18: token exchanges are not single-flight. An invocation that finds the
\* cache empty or expired starts one exchange per concurrent worker, so
\* HandlerLimit exchanges are in flight together, and every exchange that
\* completes overwrites the cache: the cache holds the token of the exchange
\* that completed last.
C18_NoSingleFlight ==
  [][/\ (invocations' # invocations /\ ~C8_Cached /\ env.id /\ env.secret) =>
          /\ exchanges' = HandlerLimit
          /\ Cardinality({w \in DOMAIN pc' : pc'[w] = "token"}) = HandlerLimit
     /\ \A w \in DOMAIN pc' : Completed(w) => AMADEUS_TOKEN' = token'[w]]_vars

\* the three exchanges of a cold invocation have all completed and the cache
\* holds the token of the third
C18_Witness ==
  /\ invocations = 1
  /\ exchanges = HandlerLimit
  /\ tokSeq = HandlerLimit
  /\ AMADEUS_TOKEN = HandlerLimit
  /\ \A w \in Workers : pc[w] # "token"

\* the workers whose getAmadeusToken call throws in this step
Threw(w) ==
  /\ w \in DOMAIN pc'
  /\ pc'[w] = "failed"
  /\ invocations' = invocations => pc[w] = "token"

\* C20: a getAmadeusToken call that fails (a credential is absent, the
\* exchange times out or answers a non-success status) leaves the cache as it
\* was; the token and its expiry change only in the step in which an exchange
\* completes, which writes both, also while other exchanges are in flight.
C20_FailureLeavesCache ==
  [][/\ (\E w \in DOMAIN pc' : Threw(w)) =>
          /\ AMADEUS_TOKEN' = AMADEUS_TOKEN
          /\ AMADEUS_TOKEN_EXPIRES_AT_MS' = AMADEUS_TOKEN_EXPIRES_AT_MS
     /\ (AMADEUS_TOKEN' # AMADEUS_TOKEN
           \/ AMADEUS_TOKEN_EXPIRES_AT_MS' # AMADEUS_TOKEN_EXPIRES_AT_MS) =>
          \E w \in DOMAIN pc' :
            /\ Completed(w)
            /\ AMADEUS_TOKEN' = token'[w]
            /\ AMADEUS_TOKEN_EXPIRES_AT_MS' \in
                 {ExpiryOf(e) : e \in ExpiresInChoices}
     /\ \A w \in DOMAIN pc' :
          Completed(w) =>
            /\ AMADEUS_TOKEN' = token'[w]
            /\ AMADEUS_TOKEN_EXPIRES_AT_MS' > now]_vars

\* an exchange failed with a non-success status after a concurrent one had
\* filled the cache, and the cached pair is still there
C20_Witness ==
  /\ authError = "status"
  /\ \E w \in Workers : pc[w] = "failed"
  /\ AMADEUS_TOKEN = 1
  /\ AMADEUS_TOKEN_EXPIRES_AT_MS = 20 * 1000

\* C11: the 429 retry is bounded. One call of the main file's search issues at
\* most 2 requests and one call of part_001's searchFlightOffers at most 5,
\* whatever the upstream answers; between two requests there is one sleep; a
\* 429 answered to the last request is returned as a failed result with
\* status 429.
C11_RetryBounded ==
  /\ retry.file = "main" => retry.requests <= 2
  /\ retry.file = "part_001" => retry.requests <= 5
  /\ retry.requests = retry.attempt
  /\ retry.pc = "sleep" => retry.lastStatus = 429
  /\ (retry.pc = "returned" /\ retry.lastStatus = 429) =>
       /\ retry.requests = IF retry.file = "main" THEN 2 ELSE 5
       /\ retry.result.ok = FALSE
       /\ retry.result.status = 429

\* searchFlightOffers returned the 429 answered to its fifth request
C11_Witness ==
  /\ retry.file = "part_001"
  /\ retry.pc = "returned"
  /\ retry.requests = 5
  /\ retry.waitMs = 8000
  /\ retry.result = [ok |-> FALSE, status |-> 429, error |-> "quota exceeded"]

\* the one offer a validator was applied to
TheOffer == offers[1]
ValidatorApplied(f) == applied = f /\ Len(offers) = 1

\* C12: the validators isValidOffer (main) and isOfferValid (part_002) admit
\* only offers with exactly two itineraries.
C12_ExactlyTwoItineraries ==
  (ValidatorApplied("isValidOffer") \/ ValidatorApplied("isOfferValid")) =>
    (out.v => Len(TheOffer.itineraries) = 2)

\* the duration of itinerary k of the offer parses / its minutes
Parses(k) == TheOffer.itineraries[k].duration.kind = "PT"
Minutes(k) == MatchedMinutes(TheOffer.itineraries[k].duration)
TwoItineraries == Len(TheOffer.itineraries) = 2

C14_NeverNonNumericPrice ==
  applied \in {"pickCheapestValid", "cheapest"} =>
    (out # NullOffer => out.price >= 0)

\* the positions the validator of the applied selector admits
Admitted ==
  IF applied = "pickCheapestValid" THEN valids(offers)
  ELSE {i \in DOMAIN offers :
          offerIsAllBusiness(offers[i]) /\ offerMeetsStopsAndDuration(offers[i])}
AdmittedNumeric == {i \in Admitted : offers[i].price >= 0}

\* C15: pickCheapestValid (main, part_000) returns the admitted offer of least
\* numeric price, the first of them in input order when several share it, and
\* null exactly when no admitted offer has a numeric price.
C15_MinPriceFirstSeen ==
  applied \in {"pickCheapestValid", "pickCheapestValid_000"} =>
    /\ out = NullOffer <=> AdmittedNumeric = {}
    /\ out # NullOffer =>
         /\ out.at \in AdmittedNumeric
         /\ \A j \in AdmittedNumeric :
              \/ out.price < offers[j].price
              \/ out.price = offers[j].price /\ out.at <= j

\* C16: a non-null bestOffer of handler's response carries the date pair it
\* was found for.
C16_BestOfferHasPair ==
  (hpc = "returned" /\ response.bestOffer # NullOffer) =>
    /\ "pair" \in DOMAIN response.bestOffer
    /\ \E i \in Items :
         /\ response.searches[i].cheapestValid # NullOffer
         /\ response.bestOffer.pair = response.searches[i].pair

\* the pairs of the response that have a cheapestValid
WithOffer == {i \in Items : response.searches[i].cheapestValid # NullOffer}

\* C17: bestOffer is null iff no entry of searches has a cheapestValid;
\* otherwise it is the cheapestValid of an entry, its price is a number and no
\* entry's cheapestValid has a lower numeric price.
C17_BestIsMinimum ==
  hpc = "returned" =>
    /\ response.bestOffer = NullOffer <=> WithOffer = {}
    /\ response.bestOffer # NullOffer =>
         /\ \E i \in WithOffer :
              response.searches[i].cheapestValid.price = response.bestOffer.price
         /\ response.bestOffer.price >= 0
         /\ \A j \in WithOffer :
              response.searches[j].cheapestValid.price >= 0 =>
                response.bestOffer.price <= response.searches[j].cheapestValid.price

====
